---- MODULE Spec2Model ----
(***************************************************************************)
(* Model of the timetable server (src/index.js): the weekly schedule and   *)
(* the date-specific event collection, both kept in JSON files, the two    *)
(* mutating routes POST /api/schedule/slot and POST /api/events, the read  *)
(* routes, and the socket.io fan-out to connected viewers.                 *)
(*                                                                         *)
(* Every handler of the server is synchronous (readFileSync/writeFileSync, *)
(* io.emit) and Node runs one handler at a time, so one handler is one     *)
(* action.                                                                 *)
(*                                                                         *)
(*   schedule, events  what masterSchedule.json and events.json parse to   *)
(*   sockets           the connected socket.io clients                     *)
(*   last              the request handled last: the request, what the     *)
(*                     handler loaded when it started, and its answer;     *)
(*                     Idle once the answer has been taken                 *)
(*   emitted           the emits the handler made, in order                *)
(*   view              what each connected viewer was sent last on each    *)
(*                     topic                                               *)
(*   steps             the order of the handler's effects                  *)
(*                                                                         *)
(* The write of a file can fail (before touching the file, or after        *)
(* truncating it); a file the server wrote is always read back as written. *)
(*                                                                         *)
(* Strings the code looks into (times, className) are sequences of         *)
(* one-character strings; strings the code only compares are TLA+ strings. *)
(* The empty string stands for every falsy field value (undefined, null,   *)
(* ""): the code only ever tests fields with `!x`, `x || y`.               *)
(***************************************************************************)
EXTENDS Integers, Sequences, FiniteSets, TLC

VARIABLES schedule, events, sockets, last, emitted, steps, view

vars == <<schedule, events, sockets, last, emitted, steps, view>>

----------------------------------------------------------------------------
(* Bounds of the model *)

MaxSlots == 2
MaxEvents == 2
\* the longest string handed to toMinutes on its own
MaxLen == 3

----------------------------------------------------------------------------
(* JavaScript numbers: an integer or NaN *)

NaN == [nan |-> TRUE, v |-> 0]
Num(n) == [nan |-> FALSE, v |-> n]

\* a <= b on numbers: false as soon as one side is NaN
Leq(a, b) == ~a.nan /\ ~b.nan /\ a.v <= b.v
\* a >= b on numbers: false as soon as one side is NaN
Geq(a, b) == ~a.nan /\ ~b.nan /\ a.v >= b.v
\* a * 60 + b
Times60Plus(a, b) == IF a.nan \/ b.nan THEN NaN ELSE Num(a.v * 60 + b.v)
\* x || 0 : NaN and 0 are falsy
OrZero(x) == IF x.nan THEN Num(0) ELSE x

----------------------------------------------------------------------------
(* Strings as sequences of characters *)

Digits == <<"0", "1", "2", "3", "4", "5", "6", "7", "8", "9">>
IsDigit(c) == \E i \in 1..10 : Digits[i] = c
DigitVal(c) == (CHOOSE i \in 1..10 : Digits[i] = c) - 1
IsSpace(c) == c = " "

RECURSIVE DropSpaces(_)
DropSpaces(s) ==
  IF s # <<>> /\ IsSpace(Head(s)) THEN DropSpaces(Tail(s)) ELSE s

RECURSIVE DropSpacesRight(_)
DropSpacesRight(s) ==
  IF s # <<>> /\ IsSpace(s[Len(s)])
  THEN DropSpacesRight(SubSeq(s, 1, Len(s) - 1))
  ELSE s

\* String.prototype.trim
Trim(s) == DropSpacesRight(DropSpaces(s))

\* String.prototype.split(':')
RECURSIVE Split(_, _)
Split(s, sep) ==
  IF \E i \in 1..Len(s) : s[i] = sep
  THEN LET i == CHOOSE k \in 1..Len(s) :
                  s[k] = sep /\ \A j \in 1..(k - 1) : s[j] # sep
       IN <<SubSeq(s, 1, i - 1)>> \o Split(SubSeq(s, i + 1, Len(s)), sep)
  ELSE <<s>>

\* the value of the leading run of digits of s, acc being the value so far
RECURSIVE DigitRun(_, _)
DigitRun(s, acc) ==
  IF s # <<>> /\ IsDigit(Head(s))
  THEN DigitRun(Tail(s), acc * 10 + DigitVal(Head(s)))
  ELSE acc

\* parseInt(x, 10): leading white space, an optional sign, then digits up to
\* the first character that is not one; NaN when there is no digit
ParseInt(x) ==
  LET t == DropSpaces(x)
      neg == t # <<>> /\ Head(t) = "-"
      u == IF t # <<>> /\ Head(t) \in {"-", "+"} THEN Tail(t) ELSE t
  IN IF u # <<>> /\ IsDigit(Head(u))
     THEN Num(IF neg THEN 0 - DigitRun(u, 0) ELSE DigitRun(u, 0))
     ELSE NaN

Digits36 ==
  <<"0", "1", "2", "3", "4", "5", "6", "7", "8", "9", "a", "b", "c", "d", "e",
    "f", "g", "h", "i", "j", "k", "l", "m", "n", "o", "p", "q", "r", "s", "t",
    "u", "v", "w", "x", "y", "z">>

\* Number.prototype.toString(radix) of a natural number, radix 10 or 36
RECURSIVE NumToString(_, _)
NumToString(n, radix) ==
  IF n < radix
  THEN Digits36[n + 1]
  ELSE NumToString(n \div radix, radix) \o Digits36[(n % radix) + 1]

----------------------------------------------------------------------------
(* Time arithmetic and the overlap rule of the slot route *)

\* const [h, m] = String(str).split(':').map((x) => parseInt(x, 10) || 0);
\* return h * 60 + m;     (m is undefined when str holds no ':')
toMinutes(str) ==
  LET parts == Split(str, ":")
      h == OrZero(ParseInt(parts[1]))
      m == IF Len(parts) >= 2 THEN OrZero(ParseInt(parts[2])) ELSE NaN
  IN Times60Plus(h, m)

\* !(eMin <= itS || sMin >= itE)
Overlaps(sMin, eMin, itS, itE) == ~(Leq(eMin, itS) \/ Geq(sMin, itE))

\* KeepItem with a bug: an item is dropped only when its start lies inside
\* the proposed interval
KeepItemStartInside(item, body) ==
  IF item.day # body.day \/ item.room # body.room
  THEN TRUE
  ELSE ~(Leq(toMinutes(body.startTime), toMinutes(item.startTime))
         /\ ~Leq(toMinutes(body.endTime), toMinutes(item.startTime)))

\* the callback of schedule.filter: TRUE keeps the item
KeepItem(item, body) ==
  IF item.day # body.day \/ item.room # body.room
  THEN TRUE
  ELSE ~Overlaps(toMinutes(body.startTime), toMinutes(body.endTime),
                 toMinutes(item.startTime), toMinutes(item.endTime))

\* Resolve with a bug: the className is pushed as it came, not trimmed
ResolveRawName(S, body) ==
  LET filtered == SelectSeq(S, LAMBDA item : KeepItem(item, body))
  IN IF Trim(body.className) # <<>>
     THEN Append(filtered, body)
     ELSE filtered

\* Resolve with a bug: the className is tested before it is trimmed
ResolveTestUntrimmed(S, body) ==
  LET filtered == SelectSeq(S, LAMBDA item : KeepItem(item, body))
  IN IF body.className # <<>>
     THEN Append(filtered, [body EXCEPT !.className = Trim(body.className)])
     ELSE filtered

\* the schedule the slot route computes and hands to writeSchedule
Resolve(S, body) ==
  LET filtered == SelectSeq(S, LAMBDA item : KeepItem(item, body))
      trimmedName == Trim(body.className)
  IN IF trimmedName # <<>>
     THEN Append(filtered, [day |-> body.day, room |-> body.room,
                            startTime |-> body.startTime,
                            endTime |-> body.endTime,
                            className |-> trimmedName])
     ELSE filtered

----------------------------------------------------------------------------
(* Inputs of the requests *)

Viewers == {"v1", "v2"}

\* Authorization headers: none, a token jwt.verify rejects, and verified
\* payloads with and without isAdmin
NoToken == [kind |-> "none", userId |-> "", isAdmin |-> FALSE]
BadToken == [kind |-> "invalid", userId |-> "", isAdmin |-> FALSE]
Jwt(u, a) == [kind |-> "jwt", userId |-> u, isAdmin |-> a]
Admin1 == Jwt("admin1", TRUE)
Admin2 == Jwt("admin2", TRUE)
Tokens == {NoToken, BadToken, Jwt("guest", FALSE), Admin1, Admin2}

\* what fs.writeFileSync can do: write the file, throw before touching it,
\* throw after truncating it
WriteOutcomes == {"ok", "fail_open", "fail_partial"}

T0900 == <<"0", "9", ":", "0", "0">>
T0930 == <<"0", "9", ":", "3", "0">>
T1000 == <<"1", "0", ":", "0", "0">>
T1030 == <<"1", "0", ":", "3", "0">>
TBare9 == <<"9">>

SlotBody(d, r, s, e, c) ==
  [day |-> d, room |-> r, startTime |-> s, endTime |-> e, className |-> c]

\* the request bodies of the slot route.  For Monday in Room1: every interval
\* over three start and three end times (intervals that overlap, touch, are
\* empty or inverted); for two other cells, one of the same day and one of
\* the same room: two intervals; each with a className that is missing, white
\* space, or a name in white space.  And bodies with a field missing.
StartTimes == {T0900, T0930, T1000}
EndTimes == {T0900, T1000, T1030}
OtherCells == {<<"Mon", "Room2">>, <<"Tue", "Room1">>}
OtherIntervals == {<<T0900, T1000>>, <<T0930, T1030>>}
ClassNames == {<<>>, <<" ">>, <<" ", "M", " ">>}

ValidSlotBodies ==
  {SlotBody("Mon", "Room1", s, e, c) :
     s \in StartTimes, e \in EndTimes, c \in ClassNames}
  \cup {SlotBody(k[1], k[2], i[1], i[2], c) :
          k \in OtherCells, i \in OtherIntervals, c \in ClassNames}

InvalidSlotBodies ==
  {SlotBody("", "Room1", T0900, T1000, <<"M">>),
   SlotBody("Mon", "", T0900, T1000, <<"M">>),
   SlotBody("Mon", "Room1", <<>>, T1000, <<"M">>),
   SlotBody("Mon", "Room1", T0900, <<>>, <<"M">>),
   SlotBody("", "", <<>>, <<>>, <<>>)}

\* a few bodies that are sent with every kind of token and every outcome of
\* the write: two insertions that overlap, with different names, an insertion
\* with a malformed time (a bare "9"), a deletion, a body with a field missing
CoreSlotBodies ==
  {SlotBody("Mon", "Room1", T0900, T1000, <<" ", "M", " ">>),
   SlotBody("Mon", "Room1", T0930, T1030, <<"P">>),
   SlotBody("Mon", "Room1", TBare9, T1000, <<" ", "M", " ">>),
   SlotBody("Mon", "Room1", T0900, T1030, <<" ">>),
   SlotBody("Mon", "", T0900, T1000, <<" ", "M", " ">>)}

\* a request: the Authorization header, the body, and what writeFileSync
\* does if the handler comes to call it
Request(token, body, w) == [token |-> token, body |-> body, w |-> w]

CoreSlotRequests ==
  {Request(t, b, "ok") : t \in Tokens, b \in CoreSlotBodies}
  \cup {Request(Admin1, b, w) : b \in CoreSlotBodies, w \in WriteOutcomes}

SlotRequests ==
  {Request(Admin1, b, "ok") : b \in ValidSlotBodies \cup InvalidSlotBodies}
  \cup CoreSlotRequests

----------------------------------------------------------------------------
(* Inputs of the event route *)

EventBody(a, i, d, r, s, e, n) ==
  [action |-> a, id |-> i, date |-> d, room |-> r, startTime |-> s,
   endTime |-> e, eventName |-> n]

\* Math.floor(Math.random() * 10000) lies in 0 .. RandLimit - 1
RandLimit == 10000

\* what Date.now() and Math.random() give a create: two requests in the same
\* millisecond with the same and with different random numbers, and a later
\* millisecond
IdSeeds == {<<35, 0>>, <<36, 0>>}
CoreIdSeeds == {<<35, 0>>, <<35, RandLimit - 1>>}

\* the id of a new event
NewId(t, rnd) == NumToString(t, 36) \o "-" \o NumToString(rnd, 10)

Dates == {"2024-05-01", "2024-05-02"}
EventNames == {"Seminar", "Exam"}
\* ids a client may name: those a create can have made, one that none has
\* made, and none
KnownIds == {NewId(p[1], p[2]) : p \in IdSeeds}
NamedIds == KnownIds \cup {"nope", ""}

CreateBodies ==
  {EventBody("create", "", d, "R1", "10:00", "11:00", n) :
     d \in Dates, n \in EventNames}
  \cup {EventBody("create", "", "", "R1", "10:00", "11:00", "Seminar"),
        EventBody("create", "", "2024-05-01", "", "10:00", "11:00", "Seminar"),
        EventBody("create", "", "2024-05-01", "R1", "", "11:00", "Seminar"),
        EventBody("create", "", "2024-05-01", "R1", "10:00", "", "Seminar"),
        EventBody("create", "", "2024-05-01", "R1", "10:00", "11:00", "")}

UpdateBodies ==
  {EventBody("update", i, d, rse[1], rse[2], rse[3], n) :
     i \in NamedIds, d \in Dates \cup {""}, n \in EventNames \cup {""},
     rse \in {<<"", "", "">>, <<"R1", "10:00", "11:00">>}}

DeleteBodies ==
  {EventBody("delete", i, "", "", "", "", "") : i \in NamedIds}

OtherBodies ==
  {EventBody("", "", "", "", "", "", ""),
   EventBody("purge", "35-0", "", "", "", "", "")}

CoreEventBodies ==
  {EventBody("create", "", "2024-05-01", "R1", "10:00", "11:00", "Seminar"),
   EventBody("update", "z-0", "", "", "", "", "Exam"),
   EventBody("delete", "z-0", "", "", "", "", ""),
   EventBody("delete", "", "", "", "", "", ""),
   EventBody("purge", "z-0", "", "", "", "", "")}

\* the bodies the route rejects: no action or an unknown one, a create with
\* a field missing, an update or a delete that names no id
InvalidEventBodies ==
  OtherBodies
  \cup {b \in CreateBodies :
          "" \in {b.date, b.room, b.startTime, b.endTime, b.eventName}}
  \cup {b \in UpdateBodies \cup DeleteBodies : b.id = "" /\ b.date = ""}

\* a request to the event route: the header, the body, what writeFileSync
\* does, and what Date.now() and Math.random() give if the handler asks
EventRequest(token, body, w, seed) ==
  [token |-> token, body |-> body, w |-> w, t |-> seed[1], rnd |-> seed[2]]

CoreEventRequests ==
  {EventRequest(t, b, "ok", <<35, 0>>) : t \in Tokens, b \in CoreEventBodies}
  \cup {EventRequest(Admin1, b, w, <<35, 0>>) :
          b \in CoreEventBodies, w \in WriteOutcomes}
  \cup {EventRequest(Admin2, CHOOSE b \in CoreEventBodies : b.action = "create",
                     "ok", seed) : seed \in CoreIdSeeds}

EventRequests ==
  {EventRequest(tk, b, "ok", seed) :
     tk \in {Admin1, Admin2}, b \in CreateBodies, seed \in IdSeeds}
  \cup {EventRequest(Admin1, b, "ok", <<35, 0>>) :
          b \in UpdateBodies \cup DeleteBodies \cup OtherBodies}
  \cup CoreEventRequests

----------------------------------------------------------------------------
(* Files and middleware *)

\* readJson: what the file parses to.  A file is kept as the value it parses
\* to: [] for an empty or unparsable file (the file a failed write left
\* truncated), else the array written last.
readJson(file) == file

\* writeJson with a bug: the write is lost, the file stays as it was
writeJsonLost(file, value, w) == file

\* the file after writeJson(filePath, value) with outcome w
writeJson(file, value, w) ==
  CASE w = "ok" -> value
    [] w = "fail_open" -> file
    [] OTHER -> <<>>

\* authMiddleware with a bug: every token that verifies is let through
authMiddlewareAnyUser(token) ==
  IF token.kind = "none" THEN 401
  ELSE IF token.kind = "invalid" THEN 401
  ELSE 0

\* authMiddleware: 0 when next() is called, else the status it answers
authMiddleware(token) ==
  IF token.kind = "none" THEN 401
  ELSE IF token.kind = "invalid" THEN 401
  ELSE IF ~token.isAdmin THEN 403
  ELSE 0

\* IoEmit with a bug: every broadcast goes out on the topic of the events
IoEmitOneTopic(topic, payload) ==
  [topic |-> "events:update", payload |-> payload, to |-> sockets]

\* io.emit(topic, payload): to every connected socket
IoEmit(topic, payload) == [topic |-> topic, payload |-> payload, to |-> sockets]
\* socket.emit(topic, payload): to that socket only
SocketEmit(v, topic, payload) == [topic |-> topic, payload |-> payload, to |-> {v}]

Topics == {"schedule:update", "events:update"}

\* what a viewer holds of a topic: the payload it was sent last, and how many
\* states of the aggregate were persisted after the one it was sent (0, 1,
\* or 2 for two and more)
Screen(payload, lag) == [payload |-> payload, lag |-> lag]
NoScreen == Screen(<<>>, 0)

\* how far a payload is behind the persisted state `now`, `before` being the
\* state that `now` replaced
Age(payload, before, now) ==
  IF payload = now THEN 0 ELSE IF payload = before THEN 1 ELSE 2

\* the emits of the handler reach the sockets they were made to, in the order
\* they were made; a socket that is closed holds nothing
Deliver ==
  view' =
    [v \in Viewers |-> [t \in Topics |->
       LET before == IF t = "schedule:update" THEN schedule ELSE events
           now == IF t = "schedule:update" THEN schedule' ELSE events'
           got == {i \in 1..Len(emitted') :
                     emitted'[i].topic = t /\ v \in emitted'[i].to}
           lastGot == CHOOSE i \in got : \A j \in got : j <= i
       IN IF v \notin sockets' THEN NoScreen
          ELSE IF got # {}
          THEN Screen(emitted'[lastGot].payload,
                      Age(emitted'[lastGot].payload, before, now))
          ELSE IF before = now THEN view[v][t]
          ELSE Screen(view[v][t].payload,
                      IF view[v][t].lag < 2 THEN view[v][t].lag + 1 ELSE 2)]]

\* the request handled last: what the handler loaded when it started (read),
\* and the answer it gave (status, success, the aggregate in the body)
Response(op, req, status, success, data, read) ==
  [op |-> op, req |-> req, status |-> status, success |-> success,
   data |-> data, read |-> read]

Idle == Response("idle", <<>>, 0, FALSE, <<>>, <<>>)

----------------------------------------------------------------------------
(* The state after construction: both files hold [] and nobody is connected *)

Init ==
  /\ schedule = <<>>
  /\ events = <<>>
  /\ sockets = {}
  /\ last = Idle
  /\ emitted = <<>>
  /\ steps = <<>>
  /\ view = [v \in Viewers |-> [t \in Topics |-> NoScreen]]

\* the answer is taken: the next request may be any
Forget ==
  /\ last # Idle
  /\ last' = Idle
  /\ emitted' = <<>>
  /\ steps' = <<>>
  /\ UNCHANGED <<schedule, events, sockets, view>>

----------------------------------------------------------------------------
(* POST /api/schedule/slot *)

\* SlotPayload with a bug: the schedule loaded before the write is sent
SlotPayloadStale(file) == readJson(schedule)

\* const payload = readSchedule(), after writeSchedule
SlotPayload(file) == readJson(file)

SlotPost(token, body, w) ==
  /\ UNCHANGED <<events, sockets>>
  /\ LET req == Request(token, body, w)
     IN
     IF authMiddleware(token) # 0
     THEN /\ last' = Response("slot", req, authMiddleware(token), FALSE, <<>>,
                           <<>>)
          /\ emitted' = <<>>
          /\ steps' = <<"respond">>
          /\ UNCHANGED schedule
     ELSE IF body.day = "" \/ body.room = "" \/ body.startTime = <<>>
             \/ body.endTime = <<>>
     THEN /\ last' = Response("slot", req, 400, FALSE, <<>>, <<>>)
          /\ emitted' = <<>>
          /\ steps' = <<"respond">>
          /\ UNCHANGED schedule
     ELSE LET filtered == Resolve(readJson(schedule), body)
          IN /\ Len(filtered) <= MaxSlots
             /\ schedule' = writeJson(schedule, filtered, w)
             /\ IF w = "ok"
                THEN LET payload == SlotPayload(schedule')
                     IN /\ emitted' = <<IoEmit("schedule:update", payload)>>
                        /\ last' = Response("slot", req, 200, TRUE, payload,
                                            readJson(schedule))
                        /\ steps' = <<"read", "write", "read", "emit",
                                      "respond">>
                ELSE /\ emitted' = <<>>
                     /\ last' = Response("slot", req, 500, FALSE, <<>>,
                                         readJson(schedule))
                     /\ steps' = <<"read", "write", "respond">>
  /\ Deliver

----------------------------------------------------------------------------
(* POST /api/events *)

\* x || y on strings
OrElse(x, y) == IF x # "" THEN x ELSE y

\* the event pushed by action "create"
NewEvent(body, id, user) ==
  [id |-> id, date |-> body.date, room |-> body.room,
   startTime |-> body.startTime, endTime |-> body.endTime,
   eventName |-> body.eventName, createdBy |-> user]

\* UpdateEvent with a bug: every field of the body is taken, supplied or not
UpdateEventOverwrite(e, body) ==
  IF e.id # body.id
  THEN e
  ELSE [e EXCEPT !.date = body.date,
                 !.room = body.room,
                 !.startTime = body.startTime,
                 !.endTime = body.endTime,
                 !.eventName = body.eventName]

\* the callback of events.map of action "update"
UpdateEvent(e, body) ==
  IF e.id # body.id
  THEN e
  ELSE [e EXCEPT !.date = OrElse(body.date, e.date),
                 !.room = OrElse(body.room, e.room),
                 !.startTime = OrElse(body.startTime, e.startTime),
                 !.endTime = OrElse(body.endTime, e.endTime),
                 !.eventName = OrElse(body.eventName, e.eventName)]

\* the callback of events.filter of action "delete": TRUE keeps the event
KeepEvent(e, body) == e.id # body.id

\* EventsInvalid with a bug: an unknown action is not rejected, it falls
\* through to the last branch, the delete
EventsInvalidLax(body) ==
  IF body.action = "" THEN 400
  ELSE IF body.action = "create"
  THEN IF body.date = "" \/ body.room = "" \/ body.startTime = ""
          \/ body.endTime = "" \/ body.eventName = ""
       THEN 400 ELSE 0
  ELSE IF body.action = "update" THEN (IF body.id = "" THEN 400 ELSE 0)
  ELSE IF body.action = "delete" THEN (IF body.id = "" THEN 400 ELSE 0)
  ELSE 0

\* the status the handler answers before it writes anything, 0 if none
EventsInvalid(body) ==
  IF body.action = "" THEN 400
  ELSE IF body.action = "create"
  THEN IF body.date = "" \/ body.room = "" \/ body.startTime = ""
          \/ body.endTime = "" \/ body.eventName = ""
       THEN 400 ELSE 0
  ELSE IF body.action = "update" THEN (IF body.id = "" THEN 400 ELSE 0)
  ELSE IF body.action = "delete" THEN (IF body.id = "" THEN 400 ELSE 0)
  ELSE 400

\* ApplyEvent with a bug: a create first clears the room, date and time it
\* books, as the slot route does
ApplyEventExclusive(E, body, id, user) ==
  IF body.action = "create"
  THEN Append(SelectSeq(E, LAMBDA e :
                          ~(e.date = body.date /\ e.room = body.room
                            /\ e.startTime = body.startTime
                            /\ e.endTime = body.endTime)),
              NewEvent(body, id, user))
  ELSE IF body.action = "update"
  THEN [i \in 1..Len(E) |-> UpdateEvent(E[i], body)]
  ELSE SelectSeq(E, LAMBDA e : KeepEvent(e, body))

\* ApplyEvent with a bug: an update that finds no event with the id adds one
ApplyEventUpsert(E, body, id, user) ==
  IF body.action = "create"
  THEN Append(E, NewEvent(body, id, user))
  ELSE IF body.action = "update"
  THEN IF \E i \in 1..Len(E) : E[i].id = body.id
       THEN [i \in 1..Len(E) |-> UpdateEvent(E[i], body)]
       ELSE Append(E, NewEvent(body, body.id, user))
  ELSE SelectSeq(E, LAMBDA e : KeepEvent(e, body))

\* the collection the handler hands to writeEvents
ApplyEvent(E, body, id, user) ==
  IF body.action = "create"
  THEN Append(E, NewEvent(body, id, user))
  ELSE IF body.action = "update"
  THEN [i \in 1..Len(E) |-> UpdateEvent(E[i], body)]
  ELSE SelectSeq(E, LAMBDA e : KeepEvent(e, body))

\* const latest = readEvents(), after writeEvents
EventsPayload(file) == readJson(file)

EventsPost(token, body, w, t, rnd) ==
  /\ UNCHANGED <<schedule, sockets>>
  /\ LET req == EventRequest(token, body, w, <<t, rnd>>)
     IN
     IF authMiddleware(token) # 0
     THEN /\ last' = Response("events", req, authMiddleware(token), FALSE,
                           <<>>, <<>>)
          /\ emitted' = <<>>
          /\ steps' = <<"respond">>
          /\ UNCHANGED events
     ELSE IF EventsInvalid(body) # 0
     THEN /\ last' = Response("events", req, EventsInvalid(body), FALSE,
                           <<>>, readJson(events))
          /\ emitted' = <<>>
          /\ steps' = <<"read", "respond">>
          /\ UNCHANGED events
     ELSE LET list == ApplyEvent(readJson(events), body, NewId(t, rnd),
                                 token.userId)
          IN /\ Len(list) <= MaxEvents
             /\ events' = writeJson(events, list, w)
             /\ IF w = "ok"
                THEN LET latest == EventsPayload(events')
                     IN /\ emitted' = <<IoEmit("events:update", latest)>>
                        /\ last' = Response("events", req, 200, TRUE, latest,
                                            readJson(events))
                        /\ steps' = <<"read", "write", "read", "emit",
                                      "respond">>
                ELSE /\ emitted' = <<>>
                     /\ last' = Response("events", req, 500, FALSE, <<>>,
                                         readJson(events))
                     /\ steps' = <<"read", "write", "respond">>
  /\ Deliver

----------------------------------------------------------------------------
(* socket.io *)

\* io.on('connection'): the current schedule, then the current events, to
\* the new socket
Connect(v) ==
  /\ last = Idle
  /\ v \notin sockets
  /\ sockets' = sockets \cup {v}
  /\ emitted' = <<SocketEmit(v, "schedule:update", readJson(schedule)),
                  SocketEmit(v, "events:update", readJson(events))>>
  /\ last' = Response("connect", v, 0, FALSE, <<>>, <<>>)
  /\ steps' = <<"read", "emit", "read", "emit">>
  /\ UNCHANGED <<schedule, events>>
  /\ Deliver

\* socket.on('disconnect')
Disconnect(v) ==
  /\ last = Idle
  /\ v \in sockets
  /\ sockets' = sockets \ {v}
  /\ emitted' = <<>>
  /\ last' = Response("disconnect", v, 0, FALSE, <<>>, <<>>)
  /\ steps' = <<>>
  /\ UNCHANGED <<schedule, events>>
  /\ Deliver

\* RequestSchedule with a bug: the reply is the schedule the server loaded
\* when it started
RequestScheduleCached(v) ==
  /\ last = Idle
  /\ v \in sockets
  /\ emitted' = <<SocketEmit(v, "schedule:update", <<>>)>>
  /\ last' = Response("request:schedule", v, 0, FALSE, <<>>, <<>>)
  /\ steps' = <<"read", "emit">>
  /\ UNCHANGED <<schedule, events, sockets>>
  /\ Deliver

\* socket.on('request:schedule')
RequestSchedule(v) ==
  /\ last = Idle
  /\ v \in sockets
  /\ emitted' = <<SocketEmit(v, "schedule:update", readJson(schedule))>>
  /\ last' = Response("request:schedule", v, 0, FALSE, <<>>, <<>>)
  /\ steps' = <<"read", "emit">>
  /\ UNCHANGED <<schedule, events, sockets>>
  /\ Deliver

\* socket.on('request:events')
RequestEvents(v) ==
  /\ last = Idle
  /\ v \in sockets
  /\ emitted' = <<SocketEmit(v, "events:update", readJson(events))>>
  /\ last' = Response("request:events", v, 0, FALSE, <<>>, <<>>)
  /\ steps' = <<"read", "emit">>
  /\ UNCHANGED <<schedule, events, sockets>>
  /\ Deliver

----------------------------------------------------------------------------
(* The read routes *)

\* GET /api/schedule
GetSchedule ==
  /\ last = Idle
  /\ last' = Response("getSchedule", <<>>, 200, FALSE, readJson(schedule),
                      <<>>)
  /\ emitted' = <<>>
  /\ steps' = <<"read", "respond">>
  /\ UNCHANGED <<schedule, events, sockets, view>>

\* GET /api/events?date=...: every event, or those of the date asked for
GetEvents(date) ==
  /\ last = Idle
  /\ last' = Response("getEvents", date, 200, FALSE,
                      IF date = ""
                      THEN readJson(events)
                      ELSE SelectSeq(readJson(events),
                                     LAMBDA e : e.date = date),
                      <<>>)
  /\ emitted' = <<>>
  /\ steps' = <<"read", "respond">>
  /\ UNCHANGED <<schedule, events, sockets, view>>

----------------------------------------------------------------------------

\* a request arrives when the answer to the one before it has been taken
SlotRequest ==
  /\ last = Idle
  /\ \E r \in SlotRequests : SlotPost(r.token, r.body, r.w)

\* the client sends the request it sent last once more
SlotRepeat ==
  /\ last.op = "slot"
  /\ SlotPost(last.req.token, last.req.body, last.req.w)

\* a request to the event route arrives
EventsRequest ==
  /\ last = Idle
  /\ \E r \in EventRequests : EventsPost(r.token, r.body, r.w, r.t, r.rnd)

\* the whole server on the core requests
CoreSlotRequest ==
  /\ last = Idle
  /\ \E r \in CoreSlotRequests : SlotPost(r.token, r.body, r.w)

CoreEventsRequest ==
  /\ last = Idle
  /\ \E r \in CoreEventRequests : EventsPost(r.token, r.body, r.w, r.t, r.rnd)

\* an administrator sends a body the slot route rejects
InvalidSlotRequest ==
  /\ last = Idle
  /\ \E b \in InvalidSlotBodies : SlotPost(Admin1, b, "ok")

\* an administrator sends a body the event route rejects
InvalidEventsRequest ==
  /\ last = Idle
  /\ \E b \in InvalidEventBodies : EventsPost(Admin1, b, "ok", 35, 0)

Next ==
  \/ CoreSlotRequest
  \/ CoreEventsRequest
  \/ InvalidSlotRequest
  \/ InvalidEventsRequest
  \/ GetSchedule
  \/ \E date \in Dates \cup {""} : GetEvents(date)
  \/ \E v \in Viewers : Connect(v)
  \/ \E v \in Viewers : Disconnect(v)
  \/ \E v \in Viewers : RequestSchedule(v)
  \/ \E v \in Viewers : RequestEvents(v)
  \/ Forget

\* the whole server: both routes on their core requests, the read routes and
\* the sockets
Spec == Init /\ [][Next]_vars

NextSlot ==
  \/ SlotRequest
  \/ SlotRepeat
  \/ Forget

NextEvents ==
  \/ EventsRequest
  \/ Forget

\* toMinutes on its own: the strings over the characters of a time, a letter,
\* a blank and a sign
TimeChars == {"0", "1", "9", ":", "x", " ", "-"}
TimeStrings == UNION {[1..n -> TimeChars] : n \in 0..MaxLen}

InitMinutes ==
  /\ schedule = <<>>
  /\ events = <<>>
  /\ sockets = {}
  /\ \E str \in TimeStrings :
       last = Response("toMinutes", str, 0, FALSE, <<>>, <<>>)
  /\ emitted = <<>>
  /\ steps = <<>>
  /\ view = [v \in Viewers |-> [t \in Topics |-> NoScreen]]

\* toMinutes is called with the string and returns
CallToMinutes ==
  /\ last.op = "toMinutes"
  /\ steps = <<>>
  /\ last' = [last EXCEPT !.data = toMinutes(last.req)]
  /\ steps' = <<"return">>
  /\ UNCHANGED <<schedule, events, sockets, emitted, view>>

NextMinutes == CallToMinutes

SpecMinutes == InitMinutes /\ [][NextMinutes]_vars

\* the slot route alone, on all its request bodies
SpecSlot == Init /\ [][NextSlot]_vars

\* the event route alone, on all its request bodies
SpecEvents == Init /\ [][NextEvents]_vars

----------------------------------------------------------------------------
(* Properties of the slot route *)

\* two slots lie in the same (day, room)
SameCell(a, b) == a.day = b.day /\ a.room = b.room

\* the overlap rule on two slots: NOT (e1 <= s2 OR s1 >= e2)
SlotsOverlap(a, b) ==
  ~(Leq(toMinutes(a.endTime), toMinutes(b.startTime))
    \/ Geq(toMinutes(a.startTime), toMinutes(b.endTime)))

\* how many times x occurs in the sequence S
Count(x, S) == Cardinality({i \in 1..Len(S) : S[i] = x})

\* the slot request handled last succeeded / its proposal, className trimmed
SlotDone == last.op = "slot" /\ last.success
Proposal == [last.req.body EXCEPT !.className = Trim(last.req.body.className)]

\* C1: the persisted schedule never holds two slots of the same (day, room)
\* whose intervals overlap under the rule NOT (e1 <= s2 OR s1 >= e2),
\* whatever slot requests were made (empty, inverted and malformed times
\* included).
C1_NoOverlap ==
  \A i, j \in 1..Len(schedule) :
    (i # j /\ SameCell(schedule[i], schedule[j]))
      => ~SlotsOverlap(schedule[i], schedule[j])

\* two slots share a (day, room), one of them with a malformed start time
C1_Witness ==
  /\ SlotDone
  /\ \E i, j \in 1..Len(schedule) :
       /\ i # j
       /\ SameCell(schedule[i], schedule[j])
       /\ toMinutes(schedule[i].startTime).nan

\* C2: after a slot request with a non-empty trimmed className, the persisted
\* schedule holds the proposal with the trimmed className, and no other slot
\* in the proposal's (day, room) overlaps the proposal.
C2_InsertReplaces ==
  (SlotDone /\ Proposal.className # <<>>)
    => \E i \in 1..Len(schedule) :
         /\ schedule[i] = Proposal
         /\ \A j \in 1..Len(schedule) :
              (j # i /\ SameCell(schedule[j], Proposal))
                => ~SlotsOverlap(schedule[j], Proposal)

\* Monday, Room1, 09:00-10:00 "M" was the schedule, 09:30-10:30 "P" was
\* proposed, and the schedule is the proposal alone
C2_Witness ==
  /\ SlotDone
  /\ last.read = <<SlotBody("Mon", "Room1", T0900, T1000, <<"M">>)>>
  /\ last.req.body = SlotBody("Mon", "Room1", T0930, T1030, <<"P">>)
  /\ schedule = <<SlotBody("Mon", "Room1", T0930, T1030, <<"P">>)>>

\* C3: after a slot request whose className is missing, empty or white space,
\* the persisted schedule holds no slot in the proposal's (day, room) that
\* overlaps the proposal, and every slot it holds it held before, as often
\* at most: nothing is added.
C3_DeleteOnly ==
  (SlotDone /\ Proposal.className = <<>>)
    => /\ \A j \in 1..Len(schedule) :
            SameCell(schedule[j], Proposal)
              => ~SlotsOverlap(schedule[j], Proposal)
       /\ \A j \in 1..Len(schedule) :
            Count(schedule[j], schedule) <= Count(schedule[j], last.read)
       /\ Len(schedule) <= Len(last.read)

\* a white-space className that removed a slot and kept another
C3_Witness ==
  /\ SlotDone
  /\ last.req.body.className = <<" ">>
  /\ Len(schedule) = 1
  /\ Len(last.read) = 2

\* C4: sending the same slot request twice in a row leaves the schedule that
\* sending it once leaves.
C4_Idempotent ==
  [][(SlotDone /\ SlotDone' /\ last'.req = last.req)
       => schedule' = schedule]_vars

----------------------------------------------------------------------------
(* Properties of the event route *)

\* the event request handled last was action a and succeeded
EventsDone(a) ==
  last.op = "events" /\ last.success /\ last.req.body.action = a

HasId(E, id) == \E i \in 1..Len(E) : E[i].id = id

\* the sequence S without its k-th element
RemoveAt(S, k) == SubSeq(S, 1, k - 1) \o SubSeq(S, k + 1, Len(S))

\* C5: no two events of the persisted collection have the same id, whatever
\* creates, updates and deletes were made.
C5_UniqueIds ==
  \A i, j \in 1..Len(events) : i # j => events[i].id # events[j].id

\* C6: a create with every field present persists the collection it found
\* plus one event, which holds the submitted fields and the caller's userId
\* as createdBy; nothing it found is removed or altered.
C6_CreateAppends ==
  EventsDone("create")
    => /\ Len(events) = Len(last.read) + 1
       /\ \E k \in 1..Len(events) :
            /\ RemoveAt(events, k) = last.read
            /\ events[k].date = last.req.body.date
            /\ events[k].room = last.req.body.room
            /\ events[k].startTime = last.req.body.startTime
            /\ events[k].endTime = last.req.body.endTime
            /\ events[k].eventName = last.req.body.eventName
            /\ events[k].createdBy = last.req.token.userId

\* a create by admin2 for a room, date and time an event of admin1 holds
C6_Witness ==
  /\ EventsDone("create")
  /\ last.req.token.userId = "admin2"
  /\ \E i \in 1..Len(last.read) :
       /\ last.read[i].createdBy = "admin1"
       /\ last.read[i].date = last.req.body.date
       /\ last.read[i].room = last.req.body.room
       /\ last.read[i].startTime = last.req.body.startTime
       /\ last.read[i].endTime = last.req.body.endTime

\* the value an update leaves in a field: the supplied one if it is present
\* and non-empty, else the old one
Supplied(new, old) == IF new # "" THEN new ELSE old

\* C7: an update changes, on the events with the id it names, exactly the
\* fields it supplies non-empty; it never changes id or createdBy, leaves
\* every other event as it was and the collection as long as it was.
C7_UpdateFields ==
  EventsDone("update")
    => /\ Len(events) = Len(last.read)
       /\ \A i \in 1..Len(last.read) :
            LET old == last.read[i]
                new == events[i]
                b == last.req.body
            IN IF old.id # b.id
               THEN new = old
               ELSE /\ new.id = old.id
                    /\ new.createdBy = old.createdBy
                    /\ new.date = Supplied(b.date, old.date)
                    /\ new.room = Supplied(b.room, old.room)
                    /\ new.startTime = Supplied(b.startTime, old.startTime)
                    /\ new.endTime = Supplied(b.endTime, old.endTime)
                    /\ new.eventName = Supplied(b.eventName, old.eventName)
                    /\ DOMAIN new = DOMAIN old

\* an update that supplies the name and not the date changed an event, next
\* to an event with another id
C7_Witness ==
  /\ EventsDone("update")
  /\ last.req.body.date = ""
  /\ last.req.body.eventName # ""
  /\ \E i, j \in 1..Len(last.read) :
       /\ last.read[i].id = last.req.body.id
       /\ events[i] # last.read[i]
       /\ last.read[j].id # last.req.body.id

\* C8: a delete of an id the collection holds leaves no event with that id,
\* one event less, and every event with another id as it was.
C8_DeleteOne ==
  (EventsDone("delete") /\ HasId(last.read, last.req.body.id))
    => /\ ~HasId(events, last.req.body.id)
       /\ Len(events) = Len(last.read) - 1
       /\ \A i \in 1..Len(last.read) :
            last.read[i].id # last.req.body.id
              => Count(last.read[i], events) = Count(last.read[i], last.read)

\* C9: a delete of an id the collection does not hold is answered as not
\* found, not as a success, leaves the collection as it was and broadcasts
\* nothing.
C9_DeleteMissing ==
  (/\ last.op = "events"
   /\ last.req.body.action = "delete"
   /\ last.req.body.id # ""
   /\ authMiddleware(last.req.token) = 0
   /\ ~HasId(last.read, last.req.body.id))
    => /\ ~last.success
       /\ events = last.read
       /\ emitted = <<>>

----------------------------------------------------------------------------
(* Properties of the fan-out *)

\* the positions of the step x in the steps of the request handled last
StepsOf(x) == {i \in 1..Len(steps) : steps[i] = x}

\* C10: a mutation that is answered as a success has made, after its write
\* and before its answer, exactly one broadcast, on the topic of its
\* aggregate, to every connected viewer, of the whole aggregate as persisted.
C10_BroadcastAfterWrite ==
  last.success
    => /\ last.op \in {"slot", "events"}
       /\ Len(emitted) = 1
       /\ emitted[1].topic =
            (IF last.op = "slot" THEN "schedule:update" ELSE "events:update")
       /\ emitted[1].to = sockets
       /\ emitted[1].payload = (IF last.op = "slot" THEN schedule ELSE events)
       /\ \E w, e \in 1..Len(steps) :
            /\ StepsOf("write") = {w}
            /\ StepsOf("emit") = {e}
            /\ StepsOf("respond") = {Len(steps)}
            /\ w < e /\ e < Len(steps)

\* a slot request changed the schedule while both viewers were connected
C10_Witness ==
  /\ last.success
  /\ last.op = "slot"
  /\ sockets = Viewers
  /\ schedule # last.read
  /\ schedule # <<>>

\* the persisted aggregate a topic carries
Aggregate(t) == IF t = "schedule:update" THEN schedule ELSE events

\* C11: what a viewer is sent on a topic never goes back: after any step,
\* a viewer that stayed connected is no further behind the persisted state
\* than it was, but for the one state the step itself may have persisted;
\* whether the step was a connection, a request of the viewer, a mutation or
\* a failed write.
C11_PerViewerOrder ==
  [][\A v \in sockets \cap sockets' : \A t \in Topics :
       view'[v][t].lag <=
         (IF Aggregate(t)' = Aggregate(t)
          THEN view[v][t].lag
          ELSE IF view[v][t].lag < 2 THEN view[v][t].lag + 1 ELSE 2)]_vars

\* an event request replaced a collection that was not empty while both
\* viewers were connected: each was sent an earlier state when it connected
\* and is now sent the new one
C11_Witness ==
  /\ last.op = "events"
  /\ last.success
  /\ sockets = Viewers
  /\ last.read # <<>>
  /\ events # last.read
  /\ \A v \in Viewers : view[v]["events:update"] = Screen(events, 0)

\* C12: a connection is answered with the persisted schedule and then the
\* persisted events, to the new viewer alone; and whenever the server is
\* between two requests, every connected viewer holds, of both topics, the
\* aggregate as it is persisted.
C12_ViewersCurrent ==
  /\ last.op = "connect"
       => emitted = <<SocketEmit(last.req, "schedule:update", schedule),
                      SocketEmit(last.req, "events:update", events)>>
  /\ \A v \in sockets : \A t \in Topics : view[v][t].payload = Aggregate(t)

----------------------------------------------------------------------------
(* Properties of the time arithmetic *)

\* the i-th component of a time, 0 when it is missing or not a number
Component(parts, i) ==
  IF i <= Len(parts) /\ ~ParseInt(parts[i]).nan THEN ParseInt(parts[i]).v
  ELSE 0

\* hours * 60 + minutes of a time, each component 0 when missing or not a
\* number
MinutesOf(str) ==
  Component(Split(str, ":"), 1) * 60 + Component(Split(str, ":"), 2)

\* the overlap rule NOT (e1 <= s2 OR s1 >= e2) on those minutes, p the
\* proposal
IntervalsOverlap(p, item) ==
  ~(MinutesOf(p.endTime) <= MinutesOf(item.startTime)
    \/ MinutesOf(p.startTime) >= MinutesOf(item.endTime))

\* C16: after a slot request, every slot of the schedule it found that lies
\* in another (day, room) than the proposal, or whose interval does not
\* overlap the proposal's (touching at an endpoint is no overlap), is in the
\* persisted schedule as it was, as often as it was; the minutes of a
\* malformed time being counted with 0 for what is missing.
C16_KeepsTheRest ==
  SlotDone
    => \A i \in 1..Len(last.read) :
         (~SameCell(last.read[i], Proposal)
          \/ ~IntervalsOverlap(Proposal, last.read[i]))
           => Count(last.read[i], schedule) >= Count(last.read[i], last.read)

\* C17: toMinutes returns, for every string, the integer hours * 60 +
\* minutes, a component that is missing or not a number counting as 0.
C17_ToMinutes ==
  (last.op = "toMinutes" /\ steps = <<"return">>)
    => last.data = Num(MinutesOf(last.req))

----------------------------------------------------------------------------
(* Properties of rejection and failure *)

\* the bodies that are invalid input: a slot without day, room, startTime or
\* endTime; an event request without action or with one that is not create,
\* update or delete; a create without date, room, startTime, endTime or
\* eventName; an update or a delete without id
InvalidInput(op, body) ==
  IF op = "slot"
  THEN body.day = "" \/ body.room = "" \/ body.startTime = <<>>
       \/ body.endTime = <<>>
  ELSE \/ body.action \notin {"create", "update", "delete"}
       \/ /\ body.action = "create"
          /\ "" \in {body.date, body.room, body.startTime, body.endTime,
                     body.eventName}
       \/ /\ body.action \in {"update", "delete"}
          /\ body.id = ""

\* C13: a request of an administrator whose body is invalid input is
\* answered 400, changes neither persisted aggregate and emits nothing.
C13_InvalidRejected ==
  [][(/\ last'.op \in {"slot", "events"}
      /\ authMiddleware(last'.req.token) = 0
      /\ InvalidInput(last'.op, last'.req.body))
       => /\ last'.status = 400
          /\ ~last'.success
          /\ schedule' = schedule
          /\ events' = events
          /\ emitted' = <<>>]_vars

\* an unknown action that names the id of a stored event was rejected while
\* a viewer was connected
C13_Witness ==
  /\ last.op = "events"
  /\ last.status = 400
  /\ last.req.body.action = "purge"
  /\ HasId(events, last.req.body.id)
  /\ sockets # {}

\* C14: a request whose save fails is answered as a failure, leaves the
\* persisted aggregates as they were before the request and emits nothing.
C14_FailedSaveKeepsState ==
  [][(/\ last'.op \in {"slot", "events"}
      /\ \E i \in 1..Len(steps') : steps'[i] = "write"
      /\ last'.req.w # "ok")
       => /\ last'.status = 500
          /\ ~last'.success
          /\ schedule' = schedule
          /\ events' = events
          /\ emitted' = <<>>]_vars

\* the request carries a token that verifies and has isAdmin set
IsAdminToken(token) == token.kind = "jwt" /\ token.isAdmin

\* C15: a request to a mutating route without a valid administrator token is
\* answered 401 or 403 before the handler reads anything, changes neither
\* persisted aggregate and emits nothing, whatever its body.
C15_AdminOnly ==
  [][(last'.op \in {"slot", "events"} /\ ~IsAdminToken(last'.req.token))
       => /\ last'.status \in {401, 403}
          /\ ~last'.success
          /\ steps' = <<"respond">>
          /\ schedule' = schedule
          /\ events' = events
          /\ emitted' = <<>>]_vars

\* a token that verifies but is no administrator's asked to delete a stored
\* event, while a viewer was connected, and was refused
C15_Witness ==
  /\ last.op = "events"
  /\ last.status = 403
  /\ last.req.body.action = "delete"
  /\ HasId(events, last.req.body.id)
  /\ sockets # {}

----------------------------------------------------------------------------
(* Properties of the mutations as a whole *)

C19_UpdateMissing ==
  (/\ last.op = "events"
   /\ last.req.body.action = "update"
   /\ last.req.body.id # ""
   /\ authMiddleware(last.req.token) = 0
   /\ last.req.w = "ok"
   /\ ~HasId(last.read, last.req.body.id))
    => /\ last.success
       /\ last.status = 200
       /\ events = last.read
       /\ last.data = events
       /\ emitted = <<IoEmit("events:update", events)>>

\* an update named an id that none of the stored events has
C19_Witness ==
  /\ last.op = "events"
  /\ last.req.body.action = "update"
  /\ last.success
  /\ last.read # <<>>
  /\ ~HasId(last.read, last.req.body.id)
  /\ last.req.body.eventName # ""

\* the operations that only read
ReadOps ==
  {"getSchedule", "getEvents", "connect", "request:schedule",
   "request:events"}

\* C20: a slot request leaves the persisted events as they were and emits
\* nothing on events:update; an event request leaves the persisted schedule
\* as it was and emits nothing on schedule:update; the read routes, a
\* connection and the requests of a viewer leave both as they were.
C20_Independent ==
  [][/\ last'.op = "slot"
          => /\ events' = events
             /\ \A i \in 1..Len(emitted') :
                  emitted'[i].topic # "events:update"
     /\ last'.op = "events"
          => /\ schedule' = schedule
             /\ \A i \in 1..Len(emitted') :
                  emitted'[i].topic # "schedule:update"
     /\ last'.op \in ReadOps
          => /\ schedule' = schedule
             /\ events' = events]_vars

\* a slot request changed the schedule and broadcast it while events were
\* stored and a viewer was connected
C20_Witness ==
  /\ SlotDone
  /\ schedule # last.read
  /\ events # <<>>
  /\ sockets # {}
  /\ emitted # <<>>

====
